---- MODULE Spec2Model ----
(***************************************************************************)
(* A model of the crypto price dashboard: the market data client of        *)
(* api.py (response cache, symbol index, the two fetch operations) and the *)
(* reshaping functions of data_processing.py.                              *)
(*                                                                         *)
(* Python values are modelled by records of a fixed shape per position:    *)
(*   None                      the record None                             *)
(*   a nullable number         Null or Num(n)                              *)
(*   a dict                    a function over the set of its keys         *)
(*   a list                    a sequence                                  *)
(***************************************************************************)
EXTENDS Integers, Sequences, FiniteSets, TLC

VARIABLES
    now,                    \* time.time(), in whole seconds
    coin_symbol_to_id_map,  \* api._coin_symbol_to_id_map
    cache,                  \* api._cache
    last,                   \* what the call made at this instant did (observation)
    fetched_at,             \* request key -> time of its last successful fetch
                            \* (observation)
    provider_body,          \* a market_chart response body of the provider
    history,                \* the history pipeline: payload and prepared frame
    listings                \* the listings pipeline: payload and prepared frame

vars == <<now, coin_symbol_to_id_map, cache, last, fetched_at, provider_body, history, listings>>

-----------------------------------------------------------------------------
(* Values *)

None == [none |-> TRUE]

Null == [null |-> TRUE, v |-> 0]

Num(n) == [null |-> FALSE, v |-> n]

EmptyDict == [k \in {} |-> None]

\* d[k] = v on a dict
DictSet(d, k, v) == [x \in DOMAIN d \cup {k} |-> IF x = k THEN v ELSE d[x]]

\* str.upper() on the strings the model uses
UpperTable == [btc |-> "BTC", eth |-> "ETH", zzz |-> "ZZZ"]

Upper(s) == IF s \in DOMAIN UpperTable THEN UpperTable[s] ELSE s

-----------------------------------------------------------------------------
(* Bounds and input sets *)

CACHE_EXPIRATION_SECONDS == 60

MaxNow == 125

\* how far the clock moves between two calls
TickSteps == {59, 60, 61}

\* (vs_currency, per_page, page) of fetch_latest_listings
ListingParams ==
    { [vs_currency |-> "usd", per_page |-> 100, page |-> 1],
      [vs_currency |-> "eur", per_page |-> 100, page |-> 1] }

\* symbol arguments of fetch_historical_data
Symbols == {"btc", "BTC", "zzz"}

\* days arguments of fetch_historical_data, by Python type:
\*   int      the int n            str_int  a numeric string such as "30"
\*   str_bad  a non-numeric string such as "2024-01-01"     none  None
DaysInputs ==
    { [type |-> "int", n |-> 30], [type |-> "int", n |-> 500],
      [type |-> "str_int", n |-> 366], [type |-> "str_bad", n |-> 0],
      [type |-> "none", n |-> 0] }

\* what requests.get can do
Responses == {"200", "500", "exception"}

\* bodies of /coins/list: lists of {id, symbol}
CoinLists ==
    { << [id |-> "bitcoin", symbol |-> "btc"],
         [id |-> "ethereum", symbol |-> "eth"],
         [id |-> "batcat", symbol |-> "BTC"] >> }

\* bodies of /coins/markets
MarketsBodies ==
    { << [id |-> "bitcoin", symbol |-> "btc", market_cap |-> Num(2),
          price_change_percentage_24h_in_currency |-> Num(1)],
         [id |-> "ethereum", symbol |-> "eth", market_cap |-> Null,
          price_change_percentage_24h_in_currency |-> Null] >> }

\* bodies of /coins/{id}/market_chart used by the client specification:
\* series of [timestamp_ms, value] pairs
ClientChartBodies ==
    { [prices |-> << <<1000, 5>>, <<2000, 6>> >>,
       total_volumes |-> << <<1000, 1>> >>,
       market_caps |-> << <<1000, 9>>, <<2000, 9>> >>] }

-----------------------------------------------------------------------------
(* api.py: helpers of the two fetch operations *)

\* now - cache_entry['timestamp'] < CACHE_EXPIRATION_SECONDS
\* IsFresh with no entry ever young enough
IsFreshNever(timestamp, t) == FALSE

IsFresh(timestamp, t) == t - timestamp < CACHE_EXPIRATION_SECONDS

\* cache_key = f"{symbol}_{days}": days is an int, so the text after the last
\* underscore is the days and the text before it the symbol; the pair is the key
cache_key(symbol, days) == <<symbol, days>>

\* int(days): the value, or the exception Python raises for the argument's type
PyInt(days) ==
    CASE days.type = "int" -> [exc |-> "", n |-> days.n]
      [] days.type = "str_int" -> [exc |-> "", n |-> days.n]
      [] days.type = "str_bad" -> [exc |-> "ValueError", n |-> 0]
      [] OTHER -> [exc |-> "TypeError", n |-> 0]

\* try: days = int(days) / except ValueError: warning, days = 30
ParseDays(days) ==
    LET r == PyInt(days) IN
    CASE r.exc = "" -> [raised |-> "", warnings |-> <<>>, days |-> r.n]
      [] r.exc = "ValueError" ->
            [raised |-> "", warnings |-> <<"invalid_days">>, days |-> 30]
      [] OTHER -> [raised |-> r.exc, warnings |-> <<>>, days |-> 0]

\* ClampDays with the assignment days = 365 left out
ClampDaysWarnOnly(days) ==
    IF days > 365
    THEN [warnings |-> <<"limited_to_365">>, days |-> days]
    ELSE [warnings |-> <<>>, days |-> days]

\* if days > 365: warning, days = 365
ClampDays(days) ==
    IF days > 365
    THEN [warnings |-> <<"limited_to_365">>, days |-> 365]
    ELSE [warnings |-> <<>>, days |-> days]

\* {coin['symbol'].upper(): coin['id'] for coin in coins}: built in list order
\* SymbolMapOf keeping the first coin of a symbol instead of the last
RECURSIVE SymbolMapOfFirstWins(_, _)
SymbolMapOfFirstWins(coins, d) ==
    IF coins = <<>> THEN d
    ELSE LET k == Upper(Head(coins).symbol) IN
         SymbolMapOfFirstWins(Tail(coins),
             IF k \in DOMAIN d THEN d ELSE DictSet(d, k, Head(coins).id))

RECURSIVE SymbolMapOf(_, _)
SymbolMapOf(coins, d) ==
    IF coins = <<>> THEN d
    ELSE SymbolMapOf(Tail(coins), DictSet(d, Upper(Head(coins).symbol), Head(coins).id))

\* get_coin_symbol_to_id_map(): the value of _coin_symbol_to_id_map after the
\* call, given what GET /coins/list does when the call has to make it
SymbolMapAfter(map, resp, coins) ==
    IF map # None THEN map
    ELSE IF resp = "200" THEN [dict |-> SymbolMapOf(coins, EmptyDict)]
    ELSE [dict |-> EmptyDict]

\* SymbolMapRequests without the "is None" test: the list is fetched every time
SymbolMapRequestsAlways(map) == << [url |-> "coins/list"] >>

\* the requests get_coin_symbol_to_id_map() makes
SymbolMapRequests(map) ==
    IF map = None THEN << [url |-> "coins/list"] >> ELSE <<>>

\* the st.error messages of get_coin_symbol_to_id_map()
SymbolMapErrors(map, resp) ==
    IF map = None /\ resp # "200" THEN <<"coin_list_failed">> ELSE <<>>

\* symbol_to_id.get(symbol): None when the symbol is no key
DictGet(d, k) == IF k \in DOMAIN d THEN [id |-> d[k]] ELSE None

\* the loop over the raw coins of /coins/markets
RECURSIVE ListingsData(_)
ListingsData(coins) ==
    IF coins = <<>> THEN <<>>
    ELSE LET coin == Head(coins) IN
         << [id |-> coin.id,
             symbol |-> Upper(coin.symbol),
             quote |-> [USD |->
                 [market_cap |-> coin.market_cap,
                  percent_change_24h |-> coin.price_change_percentage_24h_in_currency]]]
         >> \o ListingsData(Tail(coins))

\* int(timestamp_ms / 1000) on a non-negative millisecond timestamp
SecondsOf(timestamp_ms) == timestamp_ms \div 1000

\* series[i][1] if i < len(series) else None   (i counts from 1 here)
ValueAt(series, i) == IF i <= Len(series) THEN Num(series[i][2]) ELSE Null

\* the loop over prices: quotes[timestamp] = {...}, a later point with the
\* same second replacing the earlier one
RECURSIVE QuotesOf(_, _, _)
QuotesOf(body, i, quotes) ==
    IF i > Len(body.prices) THEN quotes
    ELSE QuotesOf(body, i + 1,
            DictSet(quotes, SecondsOf(body.prices[i][1]),
                [USD |-> [price |-> Num(body.prices[i][2]),
                          volume_24h |-> ValueAt(body.total_volumes, i),
                          market_cap |-> ValueAt(body.market_caps, i)]]))

\* result = {'data': {symbol: {'quotes': quotes}}, 'status': {...}}
HistoryResult(symbol, body) ==
    [data |-> DictSet(EmptyDict, symbol, [quotes |-> QuotesOf(body, 1, EmptyDict)]),
     status |-> [error_code |-> 0]]

-----------------------------------------------------------------------------
(* api.py: the two fetch operations *)

\* no call is being observed
Idle ==
    [op |-> "idle", args |-> None, key |-> None, outcome |-> "", ret |-> None,
     hit |-> FALSE, reqs |-> <<>>, warnings |-> <<>>, errors |-> <<>>]

\* the (endpoint, request parameters) pair of a call
RequestKey(endpoint, params) == [endpoint |-> endpoint, params |-> params]

\* cache_entry['data'] is not None and cache_entry['timestamp'] is not None
\* and now - cache_entry['timestamp'] < CACHE_EXPIRATION_SECONDS
ListingsHit(cache_entry, t) ==
    /\ cache_entry.data # None
    /\ ~cache_entry.timestamp.null
    /\ IsFresh(cache_entry.timestamp.v, t)

\* ListingsEntryAfter with a failed request clearing the entry
ListingsEntryCleared(cache_entry, resp, result, t) ==
    IF resp = "200" THEN [data |-> result, timestamp |-> Num(t)]
    ELSE [data |-> None, timestamp |-> Null]

\* _cache['latest_listings'] after a call that went to the network
ListingsEntryAfter(cache_entry, resp, result, t) ==
    IF resp = "200" THEN [data |-> result, timestamp |-> Num(t)] ELSE cache_entry

\* cache_entry is not None and now - cache_entry['timestamp'] < ...
HistoryHit(entries, key, t) ==
    /\ key \in DOMAIN entries
    /\ IsFresh(entries[key].timestamp, t)

\* _cache['historical_data'] after a call that requested the market chart
HistoryEntriesAfter(entries, key, resp, result, t) ==
    IF resp = "200"
    THEN DictSet(entries, key, [data |-> result, timestamp |-> t])
    ELSE entries

\* fetch_latest_listings(vs_currency, per_page, page); resp and coins are what
\* GET /coins/markets does if the call makes it
fetch_latest_listings(p, resp, coins) ==
    LET cache_entry == cache.latest_listings
        key == RequestKey("latest_listings", p)
        request == [url |-> "coins/markets", params |-> p]
        result == [data |-> ListingsData(coins), request |-> request]
        call == [Idle EXCEPT !.op = "fetch_latest_listings", !.args = p,
                             !.key = key, !.outcome = "return"]
    IN
    IF ListingsHit(cache_entry, now)
    THEN /\ last' = [call EXCEPT !.hit = TRUE, !.ret = cache_entry.data]
         /\ UNCHANGED <<cache, fetched_at>>
    ELSE /\ cache' = [cache EXCEPT !.latest_listings =
                         ListingsEntryAfter(cache_entry, resp, result, now)]
         /\ last' = [call EXCEPT
                !.reqs = <<request>>,
                !.ret = IF resp = "200" THEN result ELSE None,
                !.errors = IF resp = "200" THEN <<>> ELSE <<"request_failed">>]
         /\ fetched_at' = IF resp = "200" THEN DictSet(fetched_at, key, now)
                          ELSE fetched_at

\* fetch_historical_data(symbol, days); list_resp and coin_list are what
\* GET /coins/list does, resp and body what GET /coins/{id}/market_chart does,
\* if the call makes them
fetch_historical_data(symbol_arg, days_arg, list_resp, coin_list, resp, body) ==
    LET symbol == Upper(symbol_arg)
        parsed == ParseDays(days_arg)
        clamped == ClampDays(parsed.days)
        days == clamped.days
        cache_key_ == cache_key(symbol, days)
        key == RequestKey("historical_data", [symbol |-> symbol, days |-> days])
        call == [Idle EXCEPT !.op = "fetch_historical_data",
                             !.args = [symbol |-> symbol_arg, days |-> days_arg]]
        looked == [call EXCEPT !.key = key, !.outcome = "return",
                               !.warnings = parsed.warnings \o clamped.warnings]
        symbol_to_id == SymbolMapAfter(coin_symbol_to_id_map, list_resp, coin_list)
        list_reqs == SymbolMapRequests(coin_symbol_to_id_map)
        list_errors == SymbolMapErrors(coin_symbol_to_id_map, list_resp)
        coin_id == DictGet(symbol_to_id.dict, symbol)
    IN
    IF parsed.raised # ""
    THEN \* int(days) raised an exception the function does not catch
         /\ last' = [call EXCEPT !.outcome = parsed.raised]
         /\ UNCHANGED <<coin_symbol_to_id_map, cache, fetched_at>>
    ELSE IF HistoryHit(cache.historical_data, cache_key_, now)
    THEN /\ last' = [looked EXCEPT !.hit = TRUE,
                                   !.ret = cache.historical_data[cache_key_].data]
         /\ UNCHANGED <<coin_symbol_to_id_map, cache, fetched_at>>
    ELSE IF coin_id = None
    THEN \* Coin ID not found for symbol
         /\ coin_symbol_to_id_map' = symbol_to_id
         /\ last' = [looked EXCEPT !.reqs = list_reqs,
                                   !.errors = list_errors \o <<"coin_id_not_found">>]
         /\ UNCHANGED <<cache, fetched_at>>
    ELSE LET request == [url |-> "market_chart", coin_id |-> coin_id.id, days |-> days]
             result == [HistoryResult(symbol, body) EXCEPT !.status =
                            [error_code |-> 0, request |-> request]]
         IN
         /\ coin_symbol_to_id_map' = symbol_to_id
         /\ cache' = [cache EXCEPT !.historical_data =
                HistoryEntriesAfter(cache.historical_data, cache_key_, resp, result, now)]
         /\ last' = [looked EXCEPT
                !.reqs = list_reqs \o <<request>>,
                !.ret = IF resp = "200" THEN result ELSE None,
                !.errors = list_errors \o
                           (IF resp = "200" THEN <<>> ELSE <<"request_failed">>)]
         /\ fetched_at' = IF resp = "200" THEN DictSet(fetched_at, key, now)
                          ELSE fetched_at

-----------------------------------------------------------------------------
(* The client as a state machine *)

pipelineVars == <<provider_body, history, listings>>

ClientInit ==
    /\ now = 0
    /\ coin_symbol_to_id_map = None
    /\ cache = [latest_listings |-> [data |-> None, timestamp |-> Null],
                historical_data |-> EmptyDict]
    /\ last = Idle
    /\ fetched_at = EmptyDict

PipelineIdle ==
    /\ provider_body = None
    /\ history = None
    /\ listings = None

Init == ClientInit /\ PipelineIdle

\* time passes between two calls
Tick ==
    /\ \E d \in TickSteps : now + d <= MaxNow /\ now' = now + d
    /\ last' = Idle
    /\ UNCHANGED <<coin_symbol_to_id_map, cache, fetched_at>>
    /\ UNCHANGED pipelineVars

FetchLatestListings ==
    /\ \E p \in ListingParams, resp \in Responses, coins \in MarketsBodies :
            fetch_latest_listings(p, resp, coins)
    /\ UNCHANGED <<now, coin_symbol_to_id_map>>
    /\ UNCHANGED pipelineVars

\* GET /coins/list is only made while the index is None: its outcome is only
\* drawn then
CoinListResponses == IF coin_symbol_to_id_map = None THEN Responses ELSE {"200"}

FetchHistoricalData ==
    /\ \E symbol \in Symbols, days \in DaysInputs,
          list_resp \in CoinListResponses, coin_list \in CoinLists,
          resp \in Responses, body \in ClientChartBodies :
            fetch_historical_data(symbol, days, list_resp, coin_list, resp, body)
    /\ UNCHANGED now
    /\ UNCHANGED pipelineVars

Next == Tick \/ FetchLatestListings \/ FetchHistoricalData

Spec == Init /\ [][Next]_vars

-----------------------------------------------------------------------------
(* Claims about the client *)

IsListingsCall(c) == c.op = "fetch_latest_listings"

IsHistoryCall(c) == c.op = "fetch_historical_data"

\* the index of request r in the calls' request sequence, as a set
RequestsTo(c, url) == {i \in DOMAIN c.reqs : c.reqs[i].url = url}

\* the call reported a failure: a network exception, a non-200 status or an
\* unresolved symbol
Failed(c) == c.errors # <<>>

\* the days argument is a number above the provider's maximum
DaysAboveMax(c) ==
    /\ IsHistoryCall(c)
    /\ PyInt(c.args.days).exc = ""
    /\ PyInt(c.args.days).n > 365

\* C1 (as claimed): a call answered from the cache returns a payload that was
\* fetched with exactly the parameters of the call: vs_currency, page size and
\* page for listings; symbol and clamped days for history.
C1_HitHasSameParameters ==
    last.hit =>
        /\ IsListingsCall(last) => last.ret.request.params = last.args
        /\ IsHistoryCall(last) =>
              /\ DOMAIN last.ret.data = {last.key.params.symbol}
              /\ last.ret.status.request.days = last.key.params.days

\* C2 (as claimed): a call made less than 60 seconds after the last successful
\* fetch for its (endpoint, parameters) key is answered from the cache with no
\* network request and the cache left as it is; a call made 60 seconds or more
\* after it is not answered from the cache and makes a network request.
C2_SixtySecondWindow ==
    [][ (last'.op # "idle" /\ now' = now /\ last'.key # None
            /\ last'.key \in DOMAIN fetched_at)
        => IF now - fetched_at[last'.key] < 60
           THEN last'.hit /\ last'.reqs = <<>> /\ cache' = cache
           ELSE ~last'.hit /\ last'.reqs # <<>> ]_vars

\* C3: a failed fetch_latest_listings or fetch_historical_data call leaves the
\* cache as it was (no entry written, every entry keeping payload and
\* timestamp) and returns None, not a cached payload.
C3_FailedCallKeepsCache ==
    [][ Failed(last') => cache' = cache /\ last'.ret = None /\ ~last'.hit ]_vars

\* a failed refresh with a stale entry of the same key in the cache
C3_Witness ==
    /\ Failed(last)
    /\ \/ /\ IsListingsCall(last)
          /\ cache.latest_listings.data # None
          /\ now - cache.latest_listings.timestamp.v >= 60
       \/ /\ IsHistoryCall(last)
          /\ <<last.key.params.symbol, last.key.params.days>>
                \in DOMAIN cache.historical_data
          /\ "request_failed" \in {last.errors[i] : i \in DOMAIN last.errors}

\* the symbol of the call has no entry in the symbol index the call used
SymbolUnresolved(c, map) ==
    /\ IsHistoryCall(c)
    /\ c.outcome = "return"
    /\ ~c.hit
    /\ map # None
    /\ c.key.params.symbol \notin DOMAIN map.dict

\* C4 (as claimed): fetch_historical_data for a symbol with no entry in the
\* symbol index returns a failure and makes no network request.
C4_UnresolvedMakesNoRequest ==
    SymbolUnresolved(last, coin_symbol_to_id_map) =>
        /\ last.ret = None
        /\ last.reqs = <<>>

\* C4 (amended): fetch_historical_data for a symbol with no entry in the symbol
\* index returns a failure ("coin id not found") and makes no market-chart
\* request; it makes no request at all when the index was built before the
\* call, and exactly the one coin-list request that builds the index otherwise.
C4_UnresolvedMakesNoChartRequest ==
    [][ SymbolUnresolved(last', coin_symbol_to_id_map') =>
            /\ last'.ret = None
            /\ last'.errors[Len(last'.errors)] = "coin_id_not_found"
            /\ RequestsTo(last', "market_chart") = {}
            /\ cache' = cache
            /\ last'.reqs = IF coin_symbol_to_id_map = None
                            THEN << [url |-> "coins/list"] >> ELSE <<>> ]_vars

\* an unresolved symbol asked for with the index already built from a coin list
C4_Witness ==
    /\ SymbolUnresolved(last, coin_symbol_to_id_map)
    /\ last.args.symbol = "zzz"
    /\ DOMAIN coin_symbol_to_id_map.dict # {}
    /\ last.reqs = <<>>

\* the coin-list request of the call failed
CoinListFailed(c) ==
    "coin_list_failed" \in {c.errors[i] : i \in DOMAIN c.errors}

\* C5 (as claimed): the symbol index is memoized by a successful coin-list
\* fetch and only by one: a failed coin-list fetch leaves the index unbuilt,
\* and an index built from a coin list is never refetched or changed.
C5_MemoizedOnlyAfterSuccess ==
    [][ /\ CoinListFailed(last') => coin_symbol_to_id_map' = None
        /\ (coin_symbol_to_id_map # None /\ DOMAIN coin_symbol_to_id_map.dict # {})
              => /\ coin_symbol_to_id_map' = coin_symbol_to_id_map
                 /\ RequestsTo(last', "coins/list") = {} ]_vars

\* C6: a history call with days above 365 warns, uses days = 365 for the cache
\* key and for the provider request, and goes on to the cache lookup and the
\* fetch instead of failing on the parameter.
C6_DaysClampedTo365 ==
    DaysAboveMax(last) =>
        /\ last.outcome = "return"
        /\ last.warnings = <<"limited_to_365">>
        /\ last.key.params.days = 365
        /\ \A i \in RequestsTo(last, "market_chart") : last.reqs[i].days = 365
        /\ (~last.hit /\ ~SymbolUnresolved(last, coin_symbol_to_id_map))
              => RequestsTo(last, "market_chart") # {}
        /\ last.ret # None =>
              /\ <<Upper(last.args.symbol), 365>> \in DOMAIN cache.historical_data
              /\ cache.historical_data[<<Upper(last.args.symbol), 365>>].data = last.ret
              /\ last.ret.status.request.days = 365

\* days = 500 fetched with days = 365, and days = "366" answered from that entry
C6_Witness ==
    /\ DaysAboveMax(last)
    /\ last.args.days.n = 366
    /\ last.hit
    /\ last.ret.status.request.days = 365

\* C7 (as claimed): whatever the type or value of the days argument, the call
\* does not raise; a days argument that is no number, or is out of range, is
\* replaced with a warning and the call goes on to the cache lookup.
C7_InvalidDaysNeverRaises ==
    IsHistoryCall(last) =>
        /\ last.outcome = "return"
        /\ last.key # None
        /\ (PyInt(last.args.days).exc # "" \/ PyInt(last.args.days).n > 365)
              => last.warnings # <<>>

\* the places of the coins of the list whose symbol is sym after uppercasing
PlacesOf(coins, sym) == {i \in DOMAIN coins : Upper(coins[i].symbol) = sym}

\* the id of the first, and of the last, coin of the list with that symbol
FirstCoinId(coins, sym) ==
    coins[CHOOSE i \in PlacesOf(coins, sym) : \A j \in PlacesOf(coins, sym) : i <= j].id

LastCoinId(coins, sym) ==
    coins[CHOOSE i \in PlacesOf(coins, sym) : \A j \in PlacesOf(coins, sym) : i >= j].id

\* the symbol index was built from a coin list
IndexBuilt(map) == map # None /\ DOMAIN map.dict # {}

\* the market-chart requests of the call
ChartRequests(c) == {c.reqs[i] : i \in RequestsTo(c, "market_chart")}

\* C14 (as claimed): when several coins of the coin list have the same symbol
\* after uppercasing, the symbol index maps the symbol to the id of the first
\* of them, and fetch_historical_data for the symbol requests that id.
C14_FirstWriteWins ==
    IndexBuilt(coin_symbol_to_id_map) =>
        \E coins \in CoinLists :
            /\ \A sym \in DOMAIN coin_symbol_to_id_map.dict :
                 coin_symbol_to_id_map.dict[sym] = FirstCoinId(coins, sym)
            /\ IsHistoryCall(last) =>
                 \A r \in ChartRequests(last) :
                    r.coin_id = FirstCoinId(coins, Upper(last.args.symbol))

\* C14 (amended): when several coins of the coin list have the same symbol
\* after uppercasing, the symbol index maps the symbol to the id of the last
\* of them, and fetch_historical_data for the symbol requests that id.
C14_LastWriteWins ==
    IndexBuilt(coin_symbol_to_id_map) =>
        \E coins \in CoinLists :
            /\ DOMAIN coin_symbol_to_id_map.dict =
                 {Upper(coins[i].symbol) : i \in DOMAIN coins}
            /\ \A sym \in DOMAIN coin_symbol_to_id_map.dict :
                 coin_symbol_to_id_map.dict[sym] = LastCoinId(coins, sym)
            /\ IsHistoryCall(last) =>
                 \A r \in ChartRequests(last) :
                    r.coin_id = LastCoinId(coins, Upper(last.args.symbol))

\* a market-chart request for a symbol that two coins of the list have
C14_Witness ==
    /\ IndexBuilt(coin_symbol_to_id_map)
    /\ IsHistoryCall(last)
    /\ ChartRequests(last) # {}
    /\ \E coins \in CoinLists :
         /\ Cardinality(PlacesOf(coins, Upper(last.args.symbol))) > 1
         /\ FirstCoinId(coins, Upper(last.args.symbol))
              # LastCoinId(coins, Upper(last.args.symbol))

FreshEntryFor(c, entries, t) ==
    IF IsListingsCall(c)
    THEN /\ entries.latest_listings.data # None
         /\ t - entries.latest_listings.timestamp.v < 60
    ELSE /\ c.key # None
         /\ <<c.key.params.symbol, c.key.params.days>> \in DOMAIN entries.historical_data
         /\ t - entries.historical_data[<<c.key.params.symbol,
                                          c.key.params.days>>].timestamp < 60

-----------------------------------------------------------------------------
(* The history pipeline: the normalisation of fetch_historical_data followed *)
(* by data_processing.prepare_historical_data                                *)

MaxPoints == 2

\* millisecond timestamps of the provider; 1000 and 1500 lie in one second
MsStamps == {1000, 1500, 2000}

\* price series: up to MaxPoints [timestamp_ms, value] pairs, the timestamps
\* increasing
PriceSeries ==
    { ps \in UNION { [1..n -> MsStamps \X {5}] : n \in 0..MaxPoints } :
        \A i \in DOMAIN ps : \A j \in DOMAIN ps : i < j => ps[i][1] < ps[j][1] }

\* the first n points of a series
Prefix(series, n) == SubSeq(series, 1, IF n < Len(series) THEN n ELSE Len(series))

\* market_chart bodies: the volume and market-cap series may be shorter than
\* the price series
ChartBodies ==
    { [prices |-> ps, total_volumes |-> Prefix(ps, nv), market_caps |-> Prefix(ps, nc)] :
        ps \in PriceSeries, nv \in 0..MaxPoints, nc \in 0..MaxPoints }

\* payloads prepare_historical_data can be given that fetch_historical_data
\* does not build: None, {} and a payload with nothing under 'data'
GivenPayloads == {None, EmptyDict, [data |-> EmptyDict, status |-> [error_code |-> 0]]}

\* datetime.fromtimestamp(int(timestamp)): the naive local time of an epoch
\* second, kept as the epoch second (the local UTC offset taken as fixed)
FromTimestamp(timestamp) == timestamp

\* the keys of a dict of numbers in ascending order
RECURSIVE Ascending(_)
Ascending(keys) ==
    IF keys = {} THEN <<>>
    ELSE LET m == CHOOSE x \in keys : \A y \in keys : x <= y
         IN <<m>> \o Ascending(keys \ {m})

\* hist_data rows of the quotes, after df.sort_values('timestamp'): the keys of
\* quotes are distinct, so the order by timestamp is the only one
HistoryRows(quotes) ==
    LET order == Ascending(DOMAIN quotes) IN
    [i \in DOMAIN order |->
        [timestamp |-> FromTimestamp(order[i]),
         price |-> quotes[order[i]].USD.price,
         volume_24h |-> quotes[order[i]].USD.volume_24h,
         market_cap |-> quotes[order[i]].USD.market_cap]]

\* not api_data or 'data' not in api_data
NoData(api_data) ==
    \/ api_data = None
    \/ DOMAIN api_data = {}
    \/ "data" \notin DOMAIN api_data

\* prepare_historical_data(api_data): the frame returned, or the exception
prepare_historical_data(api_data) ==
    IF NoData(api_data)
    THEN [outcome |-> "return", df |-> <<>>]
    ELSE IF DOMAIN api_data.data = {}
    THEN \* list(api_data['data'].keys())[0]
         [outcome |-> "IndexError", df |-> <<>>]
    ELSE LET symbol == CHOOSE k \in DOMAIN api_data.data : TRUE
             quotes == api_data.data[symbol].quotes
         IN IF DOMAIN quotes = {}
            THEN \* pd.DataFrame([]) has no 'timestamp' column to sort by
                 [outcome |-> "KeyError", df |-> <<>>]
            ELSE [outcome |-> "return", df |-> HistoryRows(quotes)]

HistoryInit ==
    /\ provider_body \in ChartBodies
    /\ history = [stage |-> "response", api_data |-> None, outcome |-> "", df |-> <<>>]
    /\ listings = None
    /\ ClientInit

\* fetch_historical_data turns the provider's body into its result
NormalizeHistory ==
    /\ history.stage = "response"
    /\ history' = [history EXCEPT !.stage = "payload",
                                  !.api_data = HistoryResult("BTC", provider_body)]
    /\ UNCHANGED <<provider_body, listings, now, coin_symbol_to_id_map, cache, last,
                   fetched_at>>

\* the page reshapes the payload it fetched
PrepareFetched ==
    /\ history.stage = "payload"
    /\ LET r == prepare_historical_data(history.api_data) IN
       history' = [history EXCEPT !.stage = "prepared", !.outcome = r.outcome,
                                  !.df = r.df]
    /\ UNCHANGED <<provider_body, listings, now, coin_symbol_to_id_map, cache, last,
                   fetched_at>>

\* prepare_historical_data called with a payload that was not fetched
PrepareGiven ==
    /\ history.stage = "response"
    /\ \E api_data \in GivenPayloads :
         LET r == prepare_historical_data(api_data) IN
         history' = [stage |-> "prepared", api_data |-> api_data,
                     outcome |-> r.outcome, df |-> r.df]
    /\ UNCHANGED <<provider_body, listings, now, coin_symbol_to_id_map, cache, last,
                   fetched_at>>

HistoryNext == NormalizeHistory \/ PrepareFetched \/ PrepareGiven

SpecHistory == HistoryInit /\ [][HistoryNext]_vars

\* the payload was built by fetch_historical_data from the provider's body
Fetched == history.api_data = HistoryResult("BTC", provider_body)

\* the payload has no data for the symbol: no symbol under 'data', or a symbol
\* with no samples
NoSamples(api_data) ==
    /\ ~NoData(api_data)
    /\ \/ DOMAIN api_data.data = {}
       \/ \E k \in DOMAIN api_data.data : DOMAIN api_data.data[k].quotes = {}

\* C9 (as claimed): the frame prepared from a fetched payload has exactly one
\* sample per point of the provider's price series, none merged or dropped,
\* also when two points fall in the same second.
C9_OneSamplePerPricePoint ==
    (history.stage = "prepared" /\ Fetched /\ history.outcome = "return")
        => Len(history.df) = Len(provider_body.prices)

\* C10 (as claimed): for a payload with no data for the symbol,
\* prepare_historical_data returns an empty frame and does not raise.
C10_NoSamplesGivesEmptyFrame ==
    (history.stage = "prepared" /\ NoSamples(history.api_data))
        => history.outcome = "return" /\ history.df = <<>>

-----------------------------------------------------------------------------
(* The listings pipeline: the normalisation of fetch_latest_listings followed *)
(* by data_processing.prepare_listings_data                                   *)

\* the rows of a page; a page of the provider has 100, where numpy's default
\* quicksort no longer falls back to its (stable) insertion sort
MaxRows == 4

\* market_cap values of the provider: null, or a number
MarketCaps == {Null, Num(1), Num(2)}

SymbolAt(i) == IF i = 1 THEN "btc" ELSE IF i = 2 THEN "eth" ELSE "zzz"

\* bodies of /coins/markets: the i-th coin has id i
MarketsPages ==
    UNION { { [i \in 1..n |->
                [id |-> i, symbol |-> SymbolAt(i), market_cap |-> caps[i],
                 price_change_percentage_24h_in_currency |-> Num(0)]] :
              caps \in [1..n -> MarketCaps] } : n \in 0..MaxRows }

\* crypto_list: one flat row per coin of api_data['data']
ListingRows(api_data) ==
    [i \in DOMAIN api_data.data |->
        [id |-> api_data.data[i].id,
         symbol |-> api_data.data[i].symbol,
         market_cap |-> api_data.data[i].quote.USD.market_cap,
         percent_change_24h |-> api_data.data[i].quote.USD.percent_change_24h]]

\* the permutations of 1..n
OrdersOf(n) ==
    { f \in [1..n -> 1..n] : \A i \in 1..n : \E j \in 1..n : f[j] = i }

\* sort_values(ascending=False) on two non-null values: a may come before b
ComesBeforeAscending(a, b) == a <= b

ComesBefore(a, b) == a >= b

\* the positions of the null market caps, in payload order
NullPositions(rows) == Ascending({i \in DOMAIN rows : rows[i].market_cap.null})

\* the orders df.sort_values('market_cap', ascending=False) can give the rows:
\* the sort is pandas' default kind='quicksort', which is not stable, so rows
\* of equal market_cap come out in any order; with na_position='last' the
\* rows with no market_cap follow in payload order
SortOrders(rows) ==
    LET n == Len(rows)
        nulls == NullPositions(rows)
        k == n - Len(nulls)
    IN { f \in OrdersOf(n) :
           /\ \A i \in 1..k : ~rows[f[i]].market_cap.null
           /\ \A i \in 1..k : \A j \in 1..k :
                i < j => ComesBefore(rows[f[i]].market_cap.v, rows[f[j]].market_cap.v)
           /\ \A i \in 1..Len(nulls) : f[k + i] = nulls[i] }

\* prepare_listings_data(api_data) with the sort giving order f: the frame
\* returned, or the exception
prepare_listings_data(api_data, f) ==
    LET rows == ListingRows(api_data) IN
    IF rows = <<>>
    THEN \* pd.DataFrame([]) has no 'last_updated' column
         [outcome |-> "KeyError", df |-> <<>>]
    ELSE [outcome |-> "return", df |-> [i \in DOMAIN rows |-> rows[f[i]]]]

ListingsInit ==
    /\ provider_body \in MarketsPages
    /\ listings = [stage |-> "response", api_data |-> [data |-> <<>>], outcome |-> "",
                   df |-> <<>>]
    /\ history = None
    /\ ClientInit

\* fetch_latest_listings turns the provider's body into its result
NormalizeListings ==
    /\ listings.stage = "response"
    /\ listings' = [listings EXCEPT !.stage = "payload",
                                    !.api_data = [data |-> ListingsData(provider_body)]]
    /\ UNCHANGED <<provider_body, history, now, coin_symbol_to_id_map, cache, last,
                   fetched_at>>

\* the page reshapes the payload it fetched
PrepareListings ==
    /\ listings.stage = "payload"
    /\ \E f \in SortOrders(ListingRows(listings.api_data)) :
         LET r == prepare_listings_data(listings.api_data, f) IN
         listings' = [listings EXCEPT !.stage = "prepared", !.outcome = r.outcome,
                                      !.df = r.df]
    /\ UNCHANGED <<provider_body, history, now, coin_symbol_to_id_map, cache, last,
                   fetched_at>>

ListingsNext == NormalizeListings \/ PrepareListings

SpecListings == ListingsInit /\ [][ListingsNext]_vars

\* the frame is in market_cap order: descending, the nulls after the numbers
CapDescendingNullsLast(df) ==
    \A i \in DOMAIN df : \A j \in DOMAIN df :
        i < j =>
            \/ df[j].market_cap.null
            \/ /\ ~df[i].market_cap.null
               /\ df[i].market_cap.v >= df[j].market_cap.v

\* rows i and j of the frame count as tied: both null or the same number
Tied(a, b) == a.market_cap = b.market_cap

\* tied rows are in payload order (the id of a row is its payload position)
TiesInPayloadOrder(df, same(_, _)) ==
    \A i \in DOMAIN df : \A j \in DOMAIN df :
        (i < j /\ same(df[i], df[j])) => df[i].id < df[j].id

\* the frame holds every row of the payload once
AllRows(df, api_data) ==
    /\ Len(df) = Len(api_data.data)
    /\ \A i \in DOMAIN api_data.data : \E j \in DOMAIN df : df[j] = ListingRows(api_data)[i]

BothNull(a, b) == a.market_cap.null /\ b.market_cap.null

-----------------------------------------------------------------------------
(* The movers pipeline: a listings page, prepare_listings_data, then          *)
(* data_processing.get_top_gainers_losers                                     *)

MaxMoverRows == 4

\* the largest n the page asks for (the default of the code is 5)
MaxN == 3

\* price_change_percentage_24h_in_currency values of the provider
PercentChanges == {Null, Num(-1), Num(0), Num(1)}

\* bodies of /coins/markets in the provider's market_cap_desc order: the i-th
\* coin has id i and the i-th largest market cap
MoverPages ==
    UNION { { [i \in 1..k |->
                [id |-> i, symbol |-> SymbolAt(i),
                 market_cap |-> Num(MaxMoverRows + 1 - i),
                 price_change_percentage_24h_in_currency |-> pcs[i]]] :
              pcs \in [1..k -> PercentChanges] } : k \in 0..MaxMoverRows }

\* the positions from i on of the rows with a percent change, in frame order
RECURSIVE ValidPositions(_, _)
ValidPositions(df, i) ==
    IF i > Len(df) THEN <<>>
    ELSE (IF df[i].percent_change_24h.null THEN <<>> ELSE <<i>>)
            \o ValidPositions(df, i + 1)

\* df[df[timeframe].notna()]
ValidRows(df) ==
    LET at == ValidPositions(df, 1) IN [i \in DOMAIN at |-> df[at[i]]]

\* the dtype pandas gives the column: a column of a frame built from dicts
\* whose values are all None is an object column, a column with a number in it
\* a float64 column (None read as NaN)
ColumnDtype(df) ==
    IF \A i \in DOMAIN df : df[i].percent_change_24h.null THEN "object" ELSE "float64"

\* AdjustN without the adjustment
AdjustNNever(valid_count, n) == n

\* if len(valid_df) < n*2: n = len(valid_df) // 2
AdjustN(valid_count, n) == IF valid_count < n * 2 THEN valid_count \div 2 ELSE n

\* the first n rows of the frame by value, the largest first when sign is 1 and
\* the smallest first when it is -1, rows of equal value in frame order
\* (keep='first'); all rows when the frame has fewer than n
SelectN(valid, n, sign) ==
    LET v(p) == sign * valid[p].percent_change_24h.v
        rank(p) == 1 + Cardinality({q \in DOMAIN valid :
                                      v(q) > v(p) \/ (v(q) = v(p) /\ q < p)})
        count == IF n < Len(valid) THEN n ELSE Len(valid)
    IN [i \in 1..count |-> valid[CHOOSE p \in DOMAIN valid : rank(p) = i]]

\* valid_df.nlargest(n, timeframe)
nlargest(valid, n) == SelectN(valid, n, 1)

\* valid_df.nsmallest(n, timeframe)
nsmallest(valid, n) == SelectN(valid, n, -1)

\* the losers taken with nlargest
LosersOfLargest(valid, n) == nlargest(valid, n)

\* losers = valid_df.nsmallest(n, timeframe)[[...]]
LosersOf(valid, n) == nsmallest(valid, n)

\* get_top_gainers_losers(df, n): the two frames returned, or the exception;
\* nlargest refuses an object column whatever n is
get_top_gainers_losers(df, n_arg) ==
    LET valid_df == ValidRows(df)
        n == AdjustN(Len(valid_df), n_arg)
    IN IF ColumnDtype(df) = "object"
       THEN [outcome |-> "TypeError", gainers |-> <<>>, losers |-> <<>>]
       ELSE [outcome |-> "return", gainers |-> nlargest(valid_df, n),
             losers |-> LosersOf(valid_df, n)]

NoMovers == [called |-> FALSE, n |-> 0, outcome |-> "", gainers |-> <<>>, losers |-> <<>>]

MoversInit ==
    /\ provider_body \in MoverPages
    /\ listings = [stage |-> "response", api_data |-> [data |-> <<>>], outcome |-> "",
                   df |-> <<>>, movers |-> NoMovers]
    /\ history = None
    /\ ClientInit

\* gainers_df, losers_df = get_top_gainers_losers(df), for every n up to MaxN
TopGainersLosers ==
    /\ listings.stage = "prepared"
    /\ listings.outcome = "return"
    /\ ~listings.movers.called
    /\ \E n \in 0..MaxN :
         LET r == get_top_gainers_losers(listings.df, n) IN
         listings' = [listings EXCEPT !.movers =
                        [called |-> TRUE, n |-> n, outcome |-> r.outcome,
                         gainers |-> r.gainers, losers |-> r.losers]]
    /\ UNCHANGED <<provider_body, history, now, coin_symbol_to_id_map, cache, last,
                   fetched_at>>

MoversNext == NormalizeListings \/ PrepareListings \/ TopGainersLosers

SpecMovers == MoversInit /\ [][MoversNext]_vars

\* v: the number of rows of the table with a non-null percent change
ValidCount(df) == Cardinality({i \in DOMAIN df : ~df[i].percent_change_24h.null})

Min(a, b) == IF a < b THEN a ELSE b

\* C11 (as claimed): for every table and every n >= 0, get_top_gainers_losers
\* returns gainers and losers of the same size min(n, floor(v / 2)), v the
\* number of rows with a non-null percent change; both empty when that is 0.
C11_EqualSizes ==
    listings.movers.called =>
        /\ listings.movers.outcome = "return"
        /\ Len(listings.movers.gainers) = Min(listings.movers.n, ValidCount(listings.df) \div 2)
        /\ Len(listings.movers.losers) = Len(listings.movers.gainers)

\* the percent changes of the rows of a frame
ChangesOf(frame) == {frame[i].percent_change_24h.v : i \in DOMAIN frame}

\* the rows of a frame, by their id
IdsOf(frame) == {frame[i].id : i \in DOMAIN frame}

\* get_top_gainers_losers returned its two frames
MoversReturned == listings.movers.called /\ listings.movers.outcome = "return"

\* C12: when gainers and losers are both non-empty, every percent change in
\* gainers is greater than or equal to every percent change in losers; and no
\* returned row has a null percent change.
C12_GainersAboveLosers ==
    MoversReturned =>
        /\ \A g \in ChangesOf(listings.movers.gainers) :
             \A l \in ChangesOf(listings.movers.losers) : g >= l
        /\ \A i \in DOMAIN listings.movers.gainers :
             ~listings.movers.gainers[i].percent_change_24h.null
        /\ \A i \in DOMAIN listings.movers.losers :
             ~listings.movers.losers[i].percent_change_24h.null

\* a table with a null row and too few valid rows for the n asked for, both
\* frames non-empty
C12_Witness ==
    /\ MoversReturned
    /\ listings.movers.gainers # <<>>
    /\ listings.movers.losers # <<>>
    /\ Len(listings.movers.gainers) < listings.movers.n
    /\ \E i \in DOMAIN listings.df : listings.df[i].percent_change_24h.null

\* C16 (as claimed): no row is in both gainers and losers, also when several
\* rows have the same percent change.
C16_Disjoint ==
    MoversReturned =>
        IdsOf(listings.movers.gainers) \cap IdsOf(listings.movers.losers) = {}

\* the rows with a percent change have pairwise different percent changes
DistinctChanges(df) ==
    \A i \in DOMAIN df : \A j \in DOMAIN df :
        (i # j /\ ~df[i].percent_change_24h.null /\ ~df[j].percent_change_24h.null)
            => df[i].percent_change_24h.v # df[j].percent_change_24h.v

\* C16 (amended): when the rows with a non-null percent change have pairwise
\* different percent changes, no row is in both gainers and losers; rows of
\* equal percent change can be in both.
C16_DisjointWhenDistinct ==
    (MoversReturned /\ DistinctChanges(listings.df)) =>
        IdsOf(listings.movers.gainers) \cap IdsOf(listings.movers.losers) = {}

\* three different percent changes, n cut down to one gainer and one loser
C16_Witness ==
    /\ MoversReturned
    /\ DistinctChanges(listings.df)
    /\ ValidCount(listings.df) = 3
    /\ listings.movers.n > 1
    /\ Len(listings.movers.gainers) = 1
    /\ Len(listings.movers.losers) = 1

--------------------------------------------------------------------------------
\* The market share of the listings table (data_processing.py, app.py tab3)

MaxShareRows == 3

\* market_cap values of the provider for the share: null, zero, or a positive number
ShareCaps == {Null, Num(0), Num(1), Num(2)}

\* bodies of /coins/markets: the coins are btc, eth and an altcoin
SharePages ==
    UNION { { [i \in 1..k |->
                [id |-> i, symbol |-> SymbolAt(i), market_cap |-> caps[i],
                 price_change_percentage_24h_in_currency |-> Num(1)]] :
              caps \in [1..k -> ShareCaps] } : k \in 0..MaxShareRows }

\* Series.sum() of the market_cap of the rows whose symbol is in symbols: nulls
\* are skipped
RECURSIVE CapSum(_, _, _)
CapSum(df, i, symbols) ==
    IF i > Len(df) THEN 0
    ELSE (IF df[i].symbol \in symbols /\ ~df[i].market_cap.null
          THEN df[i].market_cap.v ELSE 0)
         + CapSum(df, i + 1, symbols)

\* the symbols of the frame
SymbolsOf(df) == {df[i].symbol : i \in DOMAIN df}

\* dtype of the market_cap column: a column of None only stays object, whose
\* sum is the Python int 0; a column with a number is numeric, its sum a numpy
\* scalar
CapDtype(df) ==
    IF \A i \in DOMAIN df : df[i].market_cap.null THEN "object" ELSE "float64"

\* a / total * 100 for each of the three: a Python int divided by 0 raises
\* ZeroDivisionError, a numpy scalar divided by 0 gives nan (0 / 0) and only
\* warns.  The percentages are kept as their numerators over total.
calculate_market_share(df) ==
    LET total_market_cap == CapSum(df, 1, SymbolsOf(df))
        btc_market_cap == CapSum(df, 1, {"BTC"})
        eth_market_cap == CapSum(df, 1, {"ETH"})
        altcoins_market_cap == total_market_cap - btc_market_cap - eth_market_cap
        none == [outcome |-> "", nan |-> FALSE, total |-> total_market_cap,
                 Bitcoin |-> 0, Ethereum |-> 0, Altcoins |-> 0]
    IN  IF total_market_cap = 0
        THEN IF CapDtype(df) = "object"
             THEN [none EXCEPT !.outcome = "ZeroDivisionError"]
             ELSE [none EXCEPT !.outcome = "return", !.nan = TRUE]
        ELSE [outcome |-> "return", nan |-> FALSE, total |-> total_market_cap,
              Bitcoin |-> btc_market_cap * 100,
              Ethereum |-> eth_market_cap * 100,
              Altcoins |-> altcoins_market_cap * 100]

NoShare ==
    [called |-> FALSE, outcome |-> "", nan |-> FALSE, total |-> 0,
     Bitcoin |-> 0, Ethereum |-> 0, Altcoins |-> 0]

ShareInit ==
    /\ provider_body \in SharePages
    /\ listings = [stage |-> "response", api_data |-> [data |-> <<>>], outcome |-> "",
                   df |-> <<>>, share |-> NoShare]
    /\ history = None
    /\ ClientInit

\* tab3: market_share_data = calculate_market_share(df)
MarketShare ==
    /\ listings.stage = "prepared"
    /\ listings.outcome = "return"
    /\ ~listings.share.called
    /\ LET r == calculate_market_share(listings.df) IN
       listings' = [listings EXCEPT !.share =
                       [called |-> TRUE, outcome |-> r.outcome, nan |-> r.nan,
                        total |-> r.total, Bitcoin |-> r.Bitcoin,
                        Ethereum |-> r.Ethereum, Altcoins |-> r.Altcoins]]
    /\ UNCHANGED <<provider_body, history, now, coin_symbol_to_id_map, cache, last,
                   fetched_at>>

ShareNext == NormalizeListings \/ PrepareListings \/ MarketShare

SpecShare == ShareInit /\ [][ShareNext]_vars

\* C13: when the sum of market_cap over all rows is 0, market_share fails with
\* an explicit error and never returns NaN percentages; when the sum is
\* non-zero the three percentages are returned.
C13_ZeroTotalIsExplicitError ==
    listings.share.called =>
        /\ ~listings.share.nan
        /\ (listings.share.total = 0) = (listings.share.outcome # "return")

--------------------------------------------------------------------------------
\* The page flow up to the history chart (app.py): each run of the page script
\* fetches the listings, and tab2 fetches the history of the selected coin

\* the options of the timeframe selectbox
Timeframes == {"7d", "30d", "90d", "180d", "365d"}

\* int(timeframe.replace('d', ''))
TimeframeDays(timeframe) ==
    CASE timeframe = "7d" -> 7
      [] timeframe = "30d" -> 30
      [] timeframe = "90d" -> 90
      [] timeframe = "180d" -> 180
      [] timeframe = "365d" -> 365

\* (datetime.now() - timedelta(days=timeframe_days)).strftime('%Y-%m-%d'): the
\* text of a date, which int() does not parse; n is how many days back it lies
StartDate(timeframe_days) == [type |-> "str_bad", n |-> timeframe_days]

\* the default arguments of fetch_latest_listings
DefaultListingParams == [vs_currency |-> "usd", per_page |-> 100, page |-> 1]

NoChart == [timeframe |-> "", fetched |-> FALSE, outcome |-> "", df |-> <<>>]

PageInit ==
    /\ ClientInit
    /\ provider_body = None
    /\ listings = [stage |-> "start", outcome |-> "", df |-> <<>>]
    /\ history = NoChart

\* time passes between two runs of the page script
PageTick ==
    /\ \E d \in TickSteps : now + d <= MaxNow /\ now' = now + d
    /\ last' = Idle
    /\ listings' = [stage |-> "start", outcome |-> "", df |-> <<>>]
    /\ history' = NoChart
    /\ UNCHANGED <<provider_body, coin_symbol_to_id_map, cache, fetched_at>>

\* crypto_data = fetch_latest_listings(); if crypto_data: df = prepare_listings_data(...)
PageListings ==
    /\ listings.stage = "start"
    /\ \E resp \in Responses, coins \in MarketsBodies :
            fetch_latest_listings(DefaultListingParams, resp, coins)
    /\ IF last'.ret = None
       THEN listings' = [stage |-> "failed", outcome |-> "", df |-> <<>>]
       ELSE \E f \in SortOrders(ListingRows(last'.ret)) :
               LET r == prepare_listings_data(last'.ret, f) IN
               listings' = [stage |-> "prepared", outcome |-> r.outcome, df |-> r.df]
    /\ UNCHANGED <<now, coin_symbol_to_id_map, provider_body, history>>

\* tab2: the timeframe is selected, and the history of the first selected coin
\* is fetched and reshaped
PageHistory ==
    /\ listings.stage = "prepared"
    /\ listings.outcome = "return"
    /\ ~IsHistoryCall(last)
    /\ \E timeframe \in Timeframes, row \in DOMAIN listings.df,
          list_resp \in CoinListResponses, coin_list \in CoinLists,
          resp \in Responses, body \in ClientChartBodies :
         LET timeframe_days == TimeframeDays(timeframe)
             start_date == StartDate(timeframe_days)
             selected_symbol == listings.df[row].symbol
         IN /\ fetch_historical_data(selected_symbol, start_date, list_resp,
                                     coin_list, resp, body)
            /\ history' =
                 IF last'.ret = None
                 THEN [NoChart EXCEPT !.timeframe = timeframe]
                 ELSE LET r == prepare_historical_data(last'.ret) IN
                      [timeframe |-> timeframe, fetched |-> TRUE,
                       outcome |-> r.outcome, df |-> r.df]
    /\ UNCHANGED <<now, provider_body, listings>>

PageNext == PageTick \/ PageListings \/ PageHistory

SpecPage == PageInit /\ [][PageNext]_vars

\* C17: in the page flow the lookback window sent to the provider for the
\* history chart is the timeframe the user selected (7, 30, 90, 180 or 365
\* days), and no invalid-parameter warning is emitted.
C17_LookbackIsSelectedTimeframe ==
    IsHistoryCall(last) =>
        /\ last.warnings = <<>>
        /\ last.key.params.days = TimeframeDays(history.timeframe)
        /\ \A r \in ChartRequests(last) : r.days = TimeframeDays(history.timeframe)

====
